---- MODULE Spec2Model ----
(***************************************************************************)
(* Insertion sort over a singly linked list (src/main.cpp, kept here as    *)
(* src/unnamed/part_001 lines 308-675).  Nodes are numbered 1..n in the    *)
(* order PushBack created them, so a node's number is its input position.  *)
(* Every link write of ListPrepend, ListInsertAfter and ListRemoveAfter is *)
(* a step of its own, so the states between two writes are visible.        *)
(***************************************************************************)
EXTENDS Integers, Sequences, FiniteSets, Bags, TLC

\* ------------------------------------------------------------------ bounds
\* longest input list that is explored
MaxLen == 5
\* input values are drawn from 1..MaxVal
MaxVal == 3

\* longest list the primitives are called on directly
MaxApiLen == 4

\* nullptr
NULL == 0

\* the list main() builds with four PushBack calls
MainInput == <<39, 45, 11, 22>>

VARIABLES
    data,          \* Node::data  : sequence, data[i] is the value of node i
    next,          \* Node::next  : [1..n -> 0..n]
    head,          \* List::head
    pc,            \* position in ListInsertionSort and its callees
    prev,          \* ListInsertionSort local: last node of the sorted part
    curr,          \* ListInsertionSort local: node being placed
    savedNext,     \* ListInsertionSort local "next"
    spot,          \* ListInsertionSort local
    argPrev,       \* parameter "prev" of ListInsertAfter / ListRemoveAfter
    newNode,       \* parameter "newNode" of ListPrepend / ListInsertAfter
    nodeToRemove,  \* local of ListRemoveAfter, also its return value
    ret,           \* where the running primitive returns to
    trace,         \* TRUE when compiled with -DTRACE
    snaps,         \* what traceui::print_state has printed so far
    writes,        \* history: every write to head or to a next field
    calls,         \* history: every primitive call made so far
    iterlog,       \* history: prev, curr, next, spot of every iteration
    pre            \* history: head and next fields when the last call began

vars == <<data, next, head, pc, prev, curr, savedNext, spot, argPrev, newNode,
          nodeToRemove, ret, trace, snaps, writes, calls, iterlog, pre>>

locals == <<prev, curr, savedNext, spot>>
params == <<argPrev, newNode, nodeToRemove, ret, pre>>
heap   == <<data, next, head>>

\* number of nodes
n == Len(data)
Nodes == 1..n

\* ------------------------------------------------------------ construction
\* PushBack called once per value, in order: node i links to node i+1
PushBackHead(vals) == IF Len(vals) = 0 THEN NULL ELSE 1
PushBackNext(vals) ==
    [i \in 1..Len(vals) |-> IF i < Len(vals) THEN i + 1 ELSE NULL]

RECURSIVE SeqsUpTo(_, _)
SeqsUpTo(S, k) ==
    IF k = 0 THEN {<<>>}
    ELSE LET shorter == SeqsUpTo(S, k - 1)
         IN  shorter \cup {Append(s, v) : s \in {t \in shorter : Len(t) = k - 1}, v \in S}

Inputs == SeqsUpTo(1..MaxVal, MaxLen) \cup {MainInput}

\* ---------------------------------------------------------------- traversal
\* the nodes met walking from p along nx, at most k of them (PrintList's loop)
RECURSIVE Walk(_, _, _)
Walk(p, nx, k) ==
    IF p = NULL \/ k = 0 THEN <<>> ELSE <<p>> \o Walk(nx[p], nx, k - 1)

\* walking from p along nx meets nullptr within k steps
RECURSIVE ReachesNull(_, _, _)
ReachesNull(p, nx, k) ==
    IF p = NULL THEN TRUE
    ELSE IF k = 0 THEN FALSE
    ELSE ReachesNull(nx[p], nx, k - 1)

Chain == Walk(head, next, n)
ChainSet == {Chain[i] : i \in 1..Len(Chain)}
ChainValues == [i \in 1..Len(Chain) |-> data[Chain[i]]]

\* ------------------------------------------------------ FindInsertionSpot
\* the while loop of FindInsertionSpot with its two cursors p (prev) and
\* c (curr).  status "null" : the loop test reads c->data with c = nullptr;
\* status "loop" : the scan never leaves a cycle.  reads: the nodes whose data
\* the loop test read.
\* variant: the comparison is turned round (>)
RECURSIVE ScanLoop_Greater(_, _, _, _, _, _, _)
ScanLoop_Greater(p, c, nx, d, value, boundary, fuel) ==
    IF c = boundary THEN [res |-> p, status |-> "ok", reads |-> {}]
    ELSE IF c = NULL THEN [res |-> p, status |-> "null", reads |-> {}]
    ELSE IF fuel = 0 THEN [res |-> p, status |-> "loop", reads |-> {}]
    ELSE IF d[c] > value
         THEN LET r == ScanLoop_Greater(c, nx[c], nx, d, value, boundary, fuel - 1)
              IN  [r EXCEPT !.reads = @ \cup {c}]
    ELSE [res |-> p, status |-> "ok", reads |-> {c}]

\* variant: the scan also passes equal values (<=)
RECURSIVE ScanLoop_LessEq(_, _, _, _, _, _, _)
ScanLoop_LessEq(p, c, nx, d, value, boundary, fuel) ==
    IF c = boundary THEN [res |-> p, status |-> "ok", reads |-> {}]
    ELSE IF c = NULL THEN [res |-> p, status |-> "null", reads |-> {}]
    ELSE IF fuel = 0 THEN [res |-> p, status |-> "loop", reads |-> {}]
    ELSE IF d[c] <= value
         THEN LET r == ScanLoop_LessEq(c, nx[c], nx, d, value, boundary, fuel - 1)
              IN  [r EXCEPT !.reads = @ \cup {c}]
    ELSE [res |-> p, status |-> "ok", reads |-> {c}]

\* variant: the boundary is not tested, "while (curr && curr->data < value)"
RECURSIVE ScanLoop_NoBoundary(_, _, _, _, _, _, _)
ScanLoop_NoBoundary(p, c, nx, d, value, boundary, fuel) ==
    IF c = NULL THEN [res |-> p, status |-> "ok", reads |-> {}]
    ELSE IF fuel = 0 THEN [res |-> p, status |-> "loop", reads |-> {}]
    ELSE IF d[c] < value
         THEN LET r == ScanLoop_NoBoundary(c, nx[c], nx, d, value, boundary, fuel - 1)
              IN  [r EXCEPT !.reads = @ \cup {c}]
    ELSE [res |-> p, status |-> "ok", reads |-> {c}]

\* variant: the two tests of the loop are swapped,
\* "while (curr->data < value && curr != boundary)"
RECURSIVE ScanLoop_TestOrder(_, _, _, _, _, _, _)
ScanLoop_TestOrder(p, c, nx, d, value, boundary, fuel) ==
    IF c = NULL THEN [res |-> p, status |-> "null", reads |-> {}]
    ELSE IF fuel = 0 THEN [res |-> p, status |-> "loop", reads |-> {}]
    ELSE IF d[c] < value /\ c # boundary
         THEN LET r == ScanLoop_TestOrder(c, nx[c], nx, d, value, boundary, fuel - 1)
              IN  [r EXCEPT !.reads = @ \cup {c}]
    ELSE [res |-> p, status |-> "ok", reads |-> {c}]

RECURSIVE ScanLoop(_, _, _, _, _, _, _)
ScanLoop(p, c, nx, d, value, boundary, fuel) ==
    IF c = boundary THEN [res |-> p, status |-> "ok", reads |-> {}]
    ELSE IF c = NULL THEN [res |-> p, status |-> "null", reads |-> {}]
    ELSE IF fuel = 0 THEN [res |-> p, status |-> "loop", reads |-> {}]
    ELSE IF d[c] < value
         THEN LET r == ScanLoop(c, nx[c], nx, d, value, boundary, fuel - 1)
              IN  [r EXCEPT !.reads = @ \cup {c}]
    ELSE [res |-> p, status |-> "ok", reads |-> {c}]

FindInsertionSpot(h, nx, d, value, boundary) ==
    ScanLoop(NULL, h, nx, d, value, boundary, Len(d))

\* ------------------------------------------------------------------- state
Init ==
    /\ data \in Inputs
    /\ next = PushBackNext(data)
    /\ head = PushBackHead(data)
    /\ pc = "start"
    /\ prev = NULL /\ curr = NULL /\ savedNext = NULL /\ spot = NULL
    /\ argPrev = NULL /\ newNode = NULL /\ nodeToRemove = NULL
    /\ ret = "none"
    /\ trace \in BOOLEAN
    /\ snaps = <<>>
    /\ writes = <<>>
    /\ calls = <<>>
    /\ iterlog = <<>>
    /\ pre = [head |-> head, next |-> next]

\* one box printed by traceui::print_state: the title, the nodes walked from
\* head, the five roles and the isolated node shown under the list
Snapshot(title, isolated) ==
    [title |-> title, order |-> Walk(head, next, n),
     H |-> head, P |-> prev, C |-> curr, N |-> savedNext, S |-> spot,
     isolated |-> isolated]

\* ------------------------------------------------------- ListInsertionSort
\* "if (!list->head || !list->head->next)"
\* variant: only the empty list is tested, "if (!list->head)"
ShortList_EmptyOnly(h, nx) == h = NULL

ShortList(h, nx) == IF h = NULL THEN TRUE ELSE nx[h] = NULL

\* the early return for a list of 0 or 1 nodes
SortReturnEarly ==
    /\ pc = "start"
    /\ ShortList(head, next)
    /\ pc' = "done"
    /\ UNCHANGED <<heap, locals, params, trace, snaps, writes, calls, iterlog>>

\* prev = list->head; curr = prev->next
SortBegin ==
    /\ pc = "start"
    /\ ~ShortList(head, next)
    /\ prev' = head
    /\ curr' = next[head]
    /\ pc' = "loop"
    /\ UNCHANGED <<heap, savedNext, spot, params, trace, snaps, writes, calls, iterlog>>

\* while (curr != nullptr) is false: the sort returns
LoopExit ==
    /\ pc = "loop"
    /\ curr = NULL
    /\ pc' = "done"
    /\ UNCHANGED <<heap, locals, params, trace, snaps, writes, calls, iterlog>>

\* loop test true; Node* next = curr->next
SaveNext ==
    /\ pc = "loop"
    /\ curr # NULL
    /\ Len(iterlog) < MaxLen
    /\ savedNext' = next[curr]
    /\ pc' = "find"
    /\ iterlog' = Append(iterlog, [prev |-> prev, curr |-> curr,
                                   next |-> next[curr], spot |-> NULL,
                                   moved |-> FALSE, nwrites |-> Len(writes)])
    /\ UNCHANGED <<heap, prev, curr, spot, params, trace, snaps, writes, calls>>

\* Node* spot = FindInsertionSpot(list, curr->data, curr)
FindSpot ==
    /\ pc = "find"
    /\ LET r == FindInsertionSpot(head, next, data, data[curr], curr)
       IN  /\ r.status # "loop"
           /\ IF r.status = "ok"
              THEN /\ spot' = r.res
                   /\ pc' = IF trace THEN "trace_before" ELSE "place"
              ELSE /\ spot' \in 0..n
                   /\ pc' \in {"crash", IF trace THEN "trace_before" ELSE "place"}
           /\ iterlog' = [iterlog EXCEPT ![Len(iterlog)].spot = spot']
    /\ pre' = [head |-> head, next |-> next]
    /\ UNCHANGED <<heap, prev, curr, savedNext, argPrev, newNode, nodeToRemove, ret,
                   trace, snaps, writes, calls>>

\* variant: the hook walks the list with the driver's own next cursor and
\* leaves it at the end of the list
PrintStateBefore_WalksNext ==
    /\ pc = "trace_before"
    /\ snaps' = Append(snaps, Snapshot("BEFORE place", NULL))
    /\ savedNext' = NULL
    /\ pc' = "place"
    /\ UNCHANGED <<heap, prev, curr, spot, params, trace, writes, calls, iterlog>>

\* #ifdef TRACE print_state("BEFORE place", ...)
PrintStateBefore ==
    /\ pc = "trace_before"
    /\ snaps' = Append(snaps, Snapshot("BEFORE place", NULL))
    /\ pc' = "place"
    /\ UNCHANGED <<heap, locals, params, trace, writes, calls, iterlog>>

\* variant: CASE 1 does not advance prev
Case1_PrevKept ==
    /\ pc = "place"
    /\ spot = prev
    /\ pc' = "advance"
    /\ UNCHANGED <<heap, locals, params, trace, snaps, writes, calls, iterlog>>

\* CASE 1: if (spot == prev) prev = curr
Case1 ==
    /\ pc = "place"
    /\ spot = prev
    /\ prev' = curr
    /\ pc' = "advance"
    /\ UNCHANGED <<heap, curr, savedNext, spot, params, trace, snaps, writes, calls, iterlog>>

\* variant: the node after spot is removed, "ListRemoveAfter(list, spot)"
CallRemoveAfter_AtSpot ==
    /\ pc = "place"
    /\ spot # prev
    /\ argPrev' = spot
    /\ ret' = IF trace THEN "trace_unlink" ELSE "stepB"
    /\ pc' = "ra_read"
    /\ pre' = [head |-> head, next |-> next]
    /\ calls' = Append(calls, <<"ListRemoveAfter", spot, NULL>>)
    /\ iterlog' = [iterlog EXCEPT ![Len(iterlog)].moved = TRUE]
    /\ UNCHANGED <<heap, locals, newNode, nodeToRemove, trace, snaps, writes>>

\* variant: no snapshot is asked for after the unlink
CallRemoveAfter_NoUnlinkTrace ==
    /\ pc = "place"
    /\ spot # prev
    /\ argPrev' = prev
    /\ ret' = "stepB"
    /\ pc' = "ra_read"
    /\ pre' = [head |-> head, next |-> next]
    /\ calls' = Append(calls, <<"ListRemoveAfter", prev, NULL>>)
    /\ iterlog' = [iterlog EXCEPT ![Len(iterlog)].moved = TRUE]
    /\ UNCHANGED <<heap, locals, newNode, nodeToRemove, trace, snaps, writes>>

\* CASE 2, STEP A: ListRemoveAfter(list, prev)
CallRemoveAfter ==
    /\ pc = "place"
    /\ spot # prev
    /\ argPrev' = prev
    /\ ret' = IF trace THEN "trace_unlink" ELSE "stepB"
    /\ pc' = "ra_read"
    /\ pre' = [head |-> head, next |-> next]
    /\ calls' = Append(calls, <<"ListRemoveAfter", prev, NULL>>)
    /\ iterlog' = [iterlog EXCEPT ![Len(iterlog)].moved = TRUE]
    /\ UNCHANGED <<heap, locals, newNode, nodeToRemove, trace, snaps, writes>>

\* #ifdef TRACE print_state("AFTER unlink", ..., curr)
PrintStateUnlink ==
    /\ pc = "trace_unlink"
    /\ snaps' = Append(snaps, Snapshot("AFTER unlink", curr))
    /\ pc' = "stepB"
    /\ UNCHANGED <<heap, locals, params, trace, writes, calls, iterlog>>

\* STEP B, spot == nullptr: ListPrepend(list, curr)
CallPrepend ==
    /\ pc = "stepB"
    /\ spot = NULL
    /\ newNode' = curr
    /\ ret' = IF trace THEN "trace_head" ELSE "advance"
    /\ pc' = "lp_link"
    /\ pre' = [head |-> head, next |-> next]
    /\ calls' = Append(calls, <<"ListPrepend", NULL, curr>>)
    /\ UNCHANGED <<heap, locals, argPrev, nodeToRemove, trace, snaps, writes, iterlog>>

\* variant: curr is put back after prev instead of after spot
CallInsertAfter_AtPrev ==
    /\ pc = "stepB"
    /\ spot # NULL
    /\ argPrev' = prev
    /\ newNode' = curr
    /\ ret' = IF trace THEN "trace_spot" ELSE "advance"
    /\ pc' = "ia_link"
    /\ pre' = [head |-> head, next |-> next]
    /\ calls' = Append(calls, <<"ListInsertAfter", prev, curr>>)
    /\ UNCHANGED <<heap, locals, nodeToRemove, trace, snaps, writes, iterlog>>

\* variant: ListInsertAfter is called whatever spot is
CallInsertAfter_NoGuard ==
    /\ pc = "stepB"
    /\ argPrev' = spot
    /\ newNode' = curr
    /\ ret' = IF trace THEN "trace_spot" ELSE "advance"
    /\ pc' = "ia_link"
    /\ pre' = [head |-> head, next |-> next]
    /\ calls' = Append(calls, <<"ListInsertAfter", spot, curr>>)
    /\ UNCHANGED <<heap, locals, nodeToRemove, trace, snaps, writes, iterlog>>

\* STEP B, otherwise: ListInsertAfter(list, spot, curr)
CallInsertAfter ==
    /\ pc = "stepB"
    /\ spot # NULL
    /\ argPrev' = spot
    /\ newNode' = curr
    /\ ret' = IF trace THEN "trace_spot" ELSE "advance"
    /\ pc' = "ia_link"
    /\ pre' = [head |-> head, next |-> next]
    /\ calls' = Append(calls, <<"ListInsertAfter", spot, curr>>)
    /\ UNCHANGED <<heap, locals, nodeToRemove, trace, snaps, writes, iterlog>>

\* #ifdef TRACE print_state("AFTER insert (at head)", ...)
PrintStateInsertHead ==
    /\ pc = "trace_head"
    /\ snaps' = Append(snaps, Snapshot("AFTER insert (at head)", NULL))
    /\ pc' = "advance"
    /\ UNCHANGED <<heap, locals, params, trace, writes, calls, iterlog>>

\* #ifdef TRACE print_state("AFTER insert at spot", ...)
PrintStateInsertSpot ==
    /\ pc = "trace_spot"
    /\ snaps' = Append(snaps, Snapshot("AFTER insert at spot", NULL))
    /\ pc' = "advance"
    /\ UNCHANGED <<heap, locals, params, trace, writes, calls, iterlog>>

\* variant: the saved next is not used, "curr = curr->next"
Advance_FromCurr ==
    /\ pc = "advance"
    /\ curr' = next[curr]
    /\ pc' = "loop"
    /\ UNCHANGED <<heap, prev, savedNext, spot, params, trace, snaps, writes, calls, iterlog>>

\* variant: prev is advanced in every iteration, moved or not
Advance_AlsoPrev ==
    /\ pc = "advance"
    /\ prev' = curr
    /\ curr' = savedNext
    /\ pc' = "loop"
    /\ UNCHANGED <<heap, savedNext, spot, params, trace, snaps, writes, calls, iterlog>>

\* curr = next, back to the loop test
Advance ==
    /\ pc = "advance"
    /\ curr' = savedNext
    /\ pc' = "loop"
    /\ UNCHANGED <<heap, prev, savedNext, spot, params, trace, snaps, writes, calls, iterlog>>

\* ------------------------------------------------------------- ListPrepend
\* variant: the new node is not linked to the old head
PrependLink_Forgotten ==
    /\ pc = "lp_link"
    /\ pc' = "lp_head"
    /\ UNCHANGED <<heap, locals, params, trace, snaps, writes, calls, iterlog>>

\* newNode->next = list->head
PrependLink ==
    /\ pc = "lp_link"
    /\ next' = [next EXCEPT ![newNode] = head]
    /\ writes' = Append(writes, <<"next", newNode, head>>)
    /\ pc' = "lp_head"
    /\ UNCHANGED <<data, head, locals, params, trace, snaps, calls, iterlog>>

\* list->head = newNode; return
PrependSetHead ==
    /\ pc = "lp_head"
    /\ head' = newNode
    /\ writes' = Append(writes, <<"head", NULL, newNode>>)
    /\ pc' = ret
    /\ UNCHANGED <<data, next, locals, params, trace, snaps, calls, iterlog>>

\* --------------------------------------------------------- ListInsertAfter
\* variant: "newNode->next = prev" instead of prev->next
InsertAfterLink_ToPrev ==
    /\ pc = "ia_link"
    /\ IF argPrev = NULL
       THEN /\ pc' = "abort"
            /\ UNCHANGED <<next, writes>>
       ELSE /\ next' = [next EXCEPT ![newNode] = argPrev]
            /\ writes' = Append(writes, <<"next", newNode, argPrev>>)
            /\ pc' = "ia_prev"
    /\ UNCHANGED <<data, head, locals, params, trace, snaps, calls, iterlog>>

\* variant: the assertion comes after the first write, which falls back on head
InsertAfterLink_LateAssert ==
    /\ pc = "ia_link"
    /\ IF argPrev = NULL
       THEN /\ next' = [next EXCEPT ![newNode] = head]
            /\ writes' = Append(writes, <<"next", newNode, head>>)
            /\ pc' = "abort"
       ELSE /\ next' = [next EXCEPT ![newNode] = next[argPrev]]
            /\ writes' = Append(writes, <<"next", newNode, next[argPrev]>>)
            /\ pc' = "ia_prev"
    /\ UNCHANGED <<data, head, locals, params, trace, snaps, calls, iterlog>>

\* assert(prev != nullptr); newNode->next = prev->next
InsertAfterLink ==
    /\ pc = "ia_link"
    /\ IF argPrev = NULL
       THEN /\ pc' = "abort"
            /\ UNCHANGED <<next, writes>>
       ELSE /\ next' = [next EXCEPT ![newNode] = next[argPrev]]
            /\ writes' = Append(writes, <<"next", newNode, next[argPrev]>>)
            /\ pc' = "ia_prev"
    /\ UNCHANGED <<data, head, locals, params, trace, snaps, calls, iterlog>>

\* variant: the anchor is not linked to the new node
InsertAfterSetPrev_Forgotten ==
    /\ pc = "ia_prev"
    /\ pc' = ret
    /\ UNCHANGED <<heap, locals, params, trace, snaps, writes, calls, iterlog>>

\* prev->next = newNode; return
InsertAfterSetPrev ==
    /\ pc = "ia_prev"
    /\ next' = [next EXCEPT ![argPrev] = newNode]
    /\ writes' = Append(writes, <<"next", argPrev, newNode>>)
    /\ pc' = ret
    /\ UNCHANGED <<data, head, locals, params, trace, snaps, calls, iterlog>>

\* --------------------------------------------------------- ListRemoveAfter
\* variant: with nothing after prev, prev itself is taken
RemoveAfterRead_TakesPrev ==
    /\ pc = "ra_read"
    /\ nodeToRemove' = IF argPrev = NULL THEN head
                       ELSE IF next[argPrev] = NULL THEN argPrev
                       ELSE next[argPrev]
    /\ pc' = IF nodeToRemove' = NULL THEN ret ELSE "ra_skip"
    /\ UNCHANGED <<heap, locals, argPrev, newNode, ret, pre, trace, snaps, writes, calls, iterlog>>

\* nodeToRemove = (prev == nullptr) ? list->head : prev->next;
\* nothing to remove: return nullptr
RemoveAfterRead ==
    /\ pc = "ra_read"
    /\ nodeToRemove' = IF argPrev = NULL THEN head ELSE next[argPrev]
    /\ pc' = IF nodeToRemove' = NULL THEN ret ELSE "ra_skip"
    /\ UNCHANGED <<heap, locals, argPrev, newNode, ret, pre, trace, snaps, writes, calls, iterlog>>

\* variant: the predecessor is not relinked, the removed node stays on the chain
RemoveAfterSkip_Forgotten ==
    /\ pc = "ra_skip"
    /\ pc' = "ra_isolate"
    /\ UNCHANGED <<heap, locals, params, trace, snaps, writes, calls, iterlog>>

\* variant: the head case does not move head
RemoveAfterSkip_HeadKept ==
    /\ pc = "ra_skip"
    /\ IF argPrev = NULL
       THEN UNCHANGED <<head, next, writes>>
       ELSE /\ next' = [next EXCEPT ![argPrev] = next[nodeToRemove]]
            /\ writes' = Append(writes, <<"next", argPrev, next[nodeToRemove]>>)
            /\ UNCHANGED head
    /\ pc' = "ra_isolate"
    /\ UNCHANGED <<data, locals, params, trace, snaps, calls, iterlog>>

\* list->head = nodeToRemove->next   or   prev->next = nodeToRemove->next
RemoveAfterSkip ==
    /\ pc = "ra_skip"
    /\ IF argPrev = NULL
       THEN /\ head' = next[nodeToRemove]
            /\ writes' = Append(writes, <<"head", NULL, next[nodeToRemove]>>)
            /\ UNCHANGED next
       ELSE /\ next' = [next EXCEPT ![argPrev] = next[nodeToRemove]]
            /\ writes' = Append(writes, <<"next", argPrev, next[nodeToRemove]>>)
            /\ UNCHANGED head
    /\ pc' = "ra_isolate"
    /\ UNCHANGED <<data, locals, params, trace, snaps, calls, iterlog>>

\* variant: the removed node keeps its old successor
RemoveAfterIsolate_Forgotten ==
    /\ pc = "ra_isolate"
    /\ pc' = ret
    /\ UNCHANGED <<heap, locals, params, trace, snaps, writes, calls, iterlog>>

\* nodeToRemove->next = nullptr; return nodeToRemove
RemoveAfterIsolate ==
    /\ pc = "ra_isolate"
    /\ next' = [next EXCEPT ![nodeToRemove] = NULL]
    /\ writes' = Append(writes, <<"next", nodeToRemove, NULL>>)
    /\ pc' = ret
    /\ UNCHANGED <<data, head, locals, params, trace, snaps, calls, iterlog>>

\* ----------------------------------------------------------- specification
Next ==
    \/ SortReturnEarly
    \/ SortBegin
    \/ LoopExit
    \/ SaveNext
    \/ FindSpot
    \/ PrintStateBefore
    \/ Case1
    \/ CallRemoveAfter
    \/ PrintStateUnlink
    \/ CallPrepend
    \/ CallInsertAfter
    \/ PrintStateInsertHead
    \/ PrintStateInsertSpot
    \/ Advance
    \/ PrependLink
    \/ PrependSetHead
    \/ InsertAfterLink
    \/ InsertAfterSetPrev
    \/ RemoveAfterRead
    \/ RemoveAfterSkip
    \/ RemoveAfterIsolate

Spec == Init /\ [][Next]_vars

\* the sort runs to completion once called (single-threaded, synchronous)
FairSpec == Spec /\ WF_vars(Next)

\* ------------------------------------------- direct calls of the functions
\* A caller other than ListInsertionSort: the first k values were pushed
\* onto the list, the other nodes were made by "new Node(d)" (next = nullptr)
\* and are not linked; then one of the four list functions is called once.
BuiltHead(k) == IF k = 0 THEN NULL ELSE 1
BuiltNext(vals, k) == [i \in 1..Len(vals) |-> IF i < k THEN i + 1 ELSE NULL]

ApiInputs == SeqsUpTo(1..MaxVal, MaxApiLen)

ApiInit ==
    /\ data \in ApiInputs
    /\ \E k \in 0..Len(data) :
          /\ head = BuiltHead(k)
          /\ next = BuiltNext(data, k)
    /\ pc = "api"
    /\ prev = NULL /\ curr = NULL /\ savedNext = NULL /\ spot = NULL
    /\ argPrev = NULL /\ newNode = NULL /\ nodeToRemove = NULL
    /\ ret = "none"
    /\ trace = FALSE
    /\ snaps = <<>>
    /\ writes = <<>>
    /\ calls = <<>>
    /\ iterlog = <<>>
    /\ pre = [head |-> head, next |-> next]

\* ListRemoveAfter(list, a) for nullptr or any node a
ApiRemoveAfter ==
    /\ pc = "api"
    /\ \E a \in 0..n :
          /\ argPrev' = a
          /\ calls' = Append(calls, <<"ListRemoveAfter", a, NULL>>)
    /\ ret' = "api_done"
    /\ pc' = "ra_read"
    /\ pre' = [head |-> head, next |-> next]
    /\ UNCHANGED <<heap, locals, newNode, nodeToRemove, trace, snaps, writes, iterlog>>

\* ListPrepend(list, x) for a node x that is not on the list
ApiPrepend ==
    /\ pc = "api"
    /\ \E x \in Nodes \ ChainSet :
          /\ newNode' = x
          /\ calls' = Append(calls, <<"ListPrepend", NULL, x>>)
    /\ ret' = "api_done"
    /\ pc' = "lp_link"
    /\ pre' = [head |-> head, next |-> next]
    /\ UNCHANGED <<heap, locals, argPrev, nodeToRemove, trace, snaps, writes, iterlog>>

\* ListInsertAfter(list, a, x) for a node x that is not on the list and
\* a = nullptr or a node of the list
ApiInsertAfter ==
    /\ pc = "api"
    /\ \E x \in Nodes \ ChainSet, a \in {NULL} \cup ChainSet :
          /\ argPrev' = a
          /\ newNode' = x
          /\ calls' = Append(calls, <<"ListInsertAfter", a, x>>)
    /\ ret' = "api_done"
    /\ pc' = "ia_link"
    /\ pre' = [head |-> head, next |-> next]
    /\ UNCHANGED <<heap, locals, nodeToRemove, trace, snaps, writes, iterlog>>

\* FindInsertionSpot(list, v, b) for b = nullptr or a node of the list; the
\* result is kept in spot
ApiFindInsertionSpot ==
    /\ pc = "api"
    /\ \E v \in 1..MaxVal, b \in {NULL} \cup ChainSet :
          LET r == FindInsertionSpot(head, next, data, v, b)
          IN  /\ r.status # "loop"
              /\ IF r.status = "ok"
                 THEN /\ spot' = r.res
                      /\ pc' = "api_done"
                 ELSE /\ spot' \in 0..n
                      /\ pc' \in {"crash", "api_done"}
              /\ calls' = Append(calls, <<"FindInsertionSpot", v, b>>)
    /\ ret' = "api_done"
    /\ pre' = [head |-> head, next |-> next]
    /\ UNCHANGED <<heap, prev, curr, savedNext, argPrev, newNode, nodeToRemove,
                   trace, snaps, writes, iterlog>>

ApiStart == Init \/ ApiInit

ApiNext ==
    \/ Next
    \/ ApiRemoveAfter
    \/ ApiPrepend
    \/ ApiInsertAfter
    \/ ApiFindInsertionSpot

\* the sort of main and the direct calls, side by side
ApiSpec == ApiStart /\ [][ApiNext]_vars


\* ------------------------------------------------------------------ typing
TypeOK ==
    /\ data \in Inputs
    /\ next \in [Nodes -> 0..n]
    /\ head \in 0..n
    /\ pc \in {"start", "loop", "find", "trace_before", "place", "ra_read",
               "ra_skip", "ra_isolate", "trace_unlink", "stepB", "lp_link",
               "lp_head", "ia_link", "ia_prev", "trace_head", "trace_spot",
               "advance", "done"}
    /\ prev \in 0..n /\ curr \in 0..n /\ savedNext \in 0..n /\ spot \in 0..n
    /\ Len(iterlog) < MaxLen

\* ------------------------------------------------------ shared vocabulary
\* the sort has returned
Done == pc = "done"

\* position of a node on the chain from head
Pos(node) == CHOOSE k \in 1..Len(Chain) : Chain[k] = node

\* the input order of the nodes: node 1, node 2, ..., node n
InputOrder == [i \in 1..n |-> i]
ReversedInput == [i \in 1..n |-> n + 1 - i]

NonDecreasing(vals) == \A i \in 1..(Len(vals) - 1) : vals[i] <= vals[i + 1]
NonIncreasing(vals) == \A i \in 1..(Len(vals) - 1) : vals[i] >= vals[i + 1]
AllEqual(vals) == \A i, j \in 1..Len(vals) : vals[i] = vals[j]

\* how often each value occurs in a sequence
ValueCount(vals) ==
    [v \in {vals[i] : i \in 1..Len(vals)} |-> Cardinality({i \in 1..Len(vals) : vals[i] = v})]

\* ------------------------------------------------------------------ claims
\* C1: after ListInsertionSort returns, every adjacent pair of nodes on the
\* chain from head is in non-decreasing value order.
C1_Sortedness ==
    Done => \A i \in 1..(Len(Chain) - 1) : data[Chain[i]] <= data[Chain[i + 1]]

\* a finished sort of three or more nodes that both prepended and inserted
C1_Witness ==
    /\ Done
    /\ n >= 3
    /\ \E i, j \in 1..Len(calls) : calls[i][1] = "ListPrepend" /\ calls[j][1] = "ListInsertAfter"

\* C2: stability - of two equal-valued nodes the one earlier in the input is
\* also earlier in the output.
C2_Stability ==
    Done => \A i, j \in Nodes : (i < j /\ data[i] = data[j]) => Pos(i) < Pos(j)

\* C3: the output holds exactly the input nodes, each once, with the same
\* values and the same length; the chain ends in nullptr.
C3_Permutation ==
    Done => /\ ReachesNull(head, next, n)
            /\ Len(Chain) = n
            /\ ChainSet = Nodes
            /\ ValueCount(ChainValues) = ValueCount(data)

\* a finished sort of three or more nodes that changed the node order
C3_Witness ==
    /\ Done
    /\ n >= 3
    /\ Len(writes) >= 4
    /\ Chain # InputOrder

\* C4: the sort always returns, and on n >= 2 nodes it has then run exactly
\* n-1 iterations of the driver loop.
C4_Termination ==
    <>(Done /\ Len(iterlog) = IF n >= 2 THEN n - 1 ELSE 0)

\* a returned sort of a list of at least three nodes after n-1 iterations
C4_Witness ==
    /\ Done
    /\ n >= 3
    /\ Len(iterlog) = n - 1

\* C5: sorting an already sorted (non-decreasing) list leaves the node order
\* as it was and writes no link and no head: no primitive is called.
C5_Idempotence ==
    (Done /\ NonDecreasing(data)) =>
        /\ Chain = InputOrder
        /\ writes = <<>>
        /\ calls = <<>>

\* C6: when all values are equal the node order after the sort is the node
\* order before it.
C6_AllEqualUnchanged ==
    (Done /\ AllEqual(data)) => Chain = InputOrder

\* C7: on an empty or one-node list the sort never enters the loop, writes
\* nothing and leaves the list as it was built.
C7_ShortInputNoWork ==
    n <= 1 =>
        /\ pc \in {"start", "done"}
        /\ writes = <<>>
        /\ calls = <<>>
        /\ iterlog = <<>>
        /\ head = PushBackHead(data)
        /\ next = PushBackNext(data)
        /\ locals = <<NULL, NULL, NULL, NULL>>

\* the sort has returned on a singleton
C7_Witness ==
    /\ Done
    /\ n = 1
    /\ Chain = <<1>>

C9_MainScenario ==
    (Done /\ data = MainInput) =>
        /\ ChainValues = <<11, 22, 39, 45>>
        /\ Len(iterlog) = 3
        /\ [k \in 1..3 |-> <<iterlog[k].prev, iterlog[k].curr, iterlog[k].next,
                             iterlog[k].spot, iterlog[k].moved>>]
             = << <<1, 2, 3, 1, FALSE>>, <<2, 3, 4, NULL, TRUE>>, <<2, 4, NULL, 3, TRUE>> >>
        /\ iterlog[2].nwrites = 0
        /\ calls = << <<"ListRemoveAfter", 2, NULL>>, <<"ListPrepend", NULL, 3>>,
                      <<"ListRemoveAfter", 2, NULL>>, <<"ListInsertAfter", 3, 4>> >>

\* main's run has finished
C9_Witness ==
    /\ Done
    /\ data = MainInput
    /\ Len(calls) = 4

\* C10: in every state, also between the two writes of a primitive, the
\* chain from head ends in nullptr and every node is on it, except curr
\* while curr is being moved.
C10_ChainWellFormed ==
    /\ ReachesNull(head, next, n)
    /\ LET onChain == ChainSet
       IN  \A x \in Nodes :
               x \in onChain \/ (x = curr /\ iterlog[Len(iterlog)].moved)

\* between the two writes of ListInsertAfter, curr off the chain
C10_Witness ==
    /\ pc = "ia_prev"
    /\ n >= 3
    /\ curr \notin ChainSet
    /\ next[curr] # NULL

\* -------------------------------------------------------------- references
\* how many references point to node x: the list's head and every next field
RefCount(x) ==
    (IF head = x THEN 1 ELSE 0) + Cardinality({y \in Nodes : next[y] = x})

\* a primitive has done its first link write and not yet its second
MidPrimitive == pc \in {"lp_head", "ia_prev", "ra_isolate"}

\* the node a primitive is inserting or removing
MovedNode == IF pc = "ra_isolate" THEN nodeToRemove ELSE newNode

\* the function that was called last has just returned (the driver also
\* comes to "advance" from CASE 1, where nothing was called)
Returned ==
    /\ pc = ret
    /\ calls # <<>>
    /\ pc = "advance" => iterlog[Len(iterlog)].moved

LastCall == calls[Len(calls)]

\* C11 as stated: no node is ever the target of more than one reference,
\* also between the two link writes of a primitive.
C11_SingleReference ==
    \A x \in Nodes : RefCount(x) <= 1

\* C11 as amended: a node is the target of two references only between the
\* two link writes of a primitive, and then it is the node that the first
\* write handed over (the moved node's successor); the node being removed
\* or inserted is never referenced twice, and no node ever three times.
C11_SingleReferenceAmended ==
    \A x \in Nodes :
        \/ RefCount(x) <= 1
        \/ /\ MidPrimitive
           /\ RefCount(x) = 2
           /\ x = next[MovedNode]
           /\ x # MovedNode
           /\ x # curr

\* between the two writes of ListRemoveAfter the old successor of curr is
\* referenced by prev and by curr
C11_Witness ==
    /\ pc = "ra_isolate"
    /\ next[nodeToRemove] # NULL
    /\ RefCount(next[nodeToRemove]) = 2
    /\ RefCount(nodeToRemove) = 0

\* C12: after ListRemoveAfter(list, prev) has returned and before the
\* re-insertion begins, curr has no successor, nothing refers to curr, curr
\* is off the chain and every other node is on it.
C12_IsolatedNode ==
    pc \in {"trace_unlink", "stepB"} =>
        /\ next[curr] = NULL
        /\ RefCount(curr) = 0
        /\ curr \notin ChainSet
        /\ ChainSet = Nodes \ {curr}
        /\ ReachesNull(head, next, n)

\* curr isolated in the middle of a list of four or more nodes
C12_Witness ==
    /\ pc = "stepB"
    /\ n >= 4
    /\ savedNext # NULL
    /\ spot # NULL
    /\ Len(Chain) = n - 1

\* ------------------------------------------------- the state before a call
\* the chain from head as it was when the last call began
PreChain == Walk(pre.head, pre.next, n)
PreChainSet == {PreChain[i] : i \in 1..Len(PreChain)}

\* the node ListRemoveAfter has to remove, as seen when it was called
PreVictim(a) == IF a = NULL THEN pre.head ELSE pre.next[a]

\* position of node x in the sequence of nodes ch
PosIn(ch, x) == CHOOSE k \in 1..Len(ch) : ch[k] = x

\* C13: ListRemoveAfter with something to remove returns the old head
\* (anchor nullptr; head becomes its successor) or the anchor's old successor
\* (anchor's next becomes the removed node's old successor); the returned
\* node's next is nullptr and every other reference is as before.
C13_RemoveAfterSemantics ==
    (Returned /\ LastCall[1] = "ListRemoveAfter" /\ PreVictim(LastCall[2]) # NULL) =>
        LET a == LastCall[2]
            old == PreVictim(a)
        IN  /\ nodeToRemove = old
            /\ next[old] = NULL
            /\ IF a = NULL
               THEN /\ head = pre.next[old]
                    /\ \A x \in Nodes \ {old} : next[x] = pre.next[x]
               ELSE /\ next[a] = pre.next[old]
                    /\ head = pre.head
                    /\ \A x \in Nodes \ {a, old} : next[x] = pre.next[x]

\* the head of a list of three nodes has been removed with anchor nullptr
C13_Witness ==
    /\ Returned
    /\ LastCall = <<"ListRemoveAfter", NULL, NULL>>
    /\ Len(PreChain) >= 3
    /\ nodeToRemove = pre.head
    /\ Len(Chain) = Len(PreChain) - 1

\* C14: ListRemoveAfter with nothing to remove (empty list and anchor
\* nullptr, or an anchor whose next is nullptr) returns nullptr and leaves
\* head and every next field as they were.
C14_RemoveAfterNothing ==
    (Returned /\ LastCall[1] = "ListRemoveAfter" /\ PreVictim(LastCall[2]) = NULL) =>
        /\ nodeToRemove = NULL
        /\ head = pre.head
        /\ next = pre.next
        /\ writes = <<>>

\* ListRemoveAfter was called on the last node of a list of two or more
C14_Witness ==
    /\ Returned
    /\ LastCall[1] = "ListRemoveAfter"
    /\ LastCall[2] # NULL
    /\ LastCall[2] \in PreChainSet
    /\ Len(PreChain) >= 2
    /\ pre.next[LastCall[2]] = NULL
    /\ nodeToRemove = NULL

\* C15: ListInsertAfter(list, anchor, node) with a reachable anchor and an
\* unreachable node: anchor's next is node, node's next is anchor's old next,
\* head and all other next fields are as before, and the chain is the old
\* chain with node right after anchor.
C15_InsertAfterPost ==
    (/\ Returned
     /\ LastCall[1] = "ListInsertAfter"
     /\ LastCall[2] \in PreChainSet
     /\ LastCall[3] \notin PreChainSet) =>
        LET a == LastCall[2]
            x == LastCall[3]
            k == PosIn(PreChain, a)
        IN  /\ next[a] = x
            /\ next[x] = pre.next[a]
            /\ head = pre.head
            /\ \A y \in Nodes \ {a, x} : next[y] = pre.next[y]
            /\ Chain = SubSeq(PreChain, 1, k) \o <<x>> \o SubSeq(PreChain, k + 1, Len(PreChain))

\* a node was inserted in the middle of a list of three or more nodes
C15_Witness ==
    /\ Returned
    /\ LastCall[1] = "ListInsertAfter"
    /\ LastCall[2] \in PreChainSet
    /\ Len(PreChain) >= 3
    /\ pre.next[LastCall[2]] # NULL
    /\ LastCall[2] # pre.head
    /\ Len(Chain) = Len(PreChain) + 1

\* C16: ListPrepend(list, node) with an unreachable node, on any list: head
\* is node, node's next is the old head, all other next fields are as before
\* and the chain is the old chain with node in front.
C16_PrependPost ==
    (Returned /\ LastCall[1] = "ListPrepend" /\ LastCall[3] \notin PreChainSet) =>
        LET x == LastCall[3]
        IN  /\ head = x
            /\ next[x] = pre.head
            /\ \A y \in Nodes \ {x} : next[y] = pre.next[y]
            /\ Chain = <<x>> \o PreChain
            /\ Cardinality(ChainSet) = Cardinality(PreChainSet) + 1

\* a node was prepended to the empty list
C16_Witness ==
    /\ Returned
    /\ LastCall[1] = "ListPrepend"
    /\ pre.head = NULL
    /\ head = LastCall[3]
    /\ Chain = <<LastCall[3]>>

\* C17: the driver never calls ListInsertAfter with a nullptr anchor (the
\* assertion never fires); every anchor it passes is on the chain when the
\* call begins, the node it passes is curr, off the chain, and no call fails.
C17_DriverCallDiscipline ==
    /\ pc \notin {"abort", "crash"}
    /\ pc = "ia_link" =>
          /\ argPrev # NULL
          /\ argPrev \in ChainSet
          /\ newNode = curr
          /\ curr \notin ChainSet
    /\ pc = "lp_link" => (newNode = curr /\ curr \notin ChainSet)
    /\ pc = "ra_read" =>
          /\ argPrev = prev
          /\ prev \in ChainSet
          /\ next[prev] = curr
    /\ (Returned /\ LastCall[1] = "ListRemoveAfter") => nodeToRemove = curr

\* the driver is about to insert curr after a node that is not the head
C17_Witness ==
    /\ pc = "ia_link"
    /\ argPrev = spot
    /\ spot # head
    /\ n >= 4

\* C18: ListInsertAfter with a nullptr anchor stops in the failed assertion
\* before any write: head, every next field (the given node's too) and the
\* write history are as they were at the call.
C18_InsertAfterNullAnchor ==
    /\ pc = "abort" => (LastCall[1] = "ListInsertAfter" /\ LastCall[2] = NULL)
    /\ (calls # <<>> /\ LastCall[1] = "ListInsertAfter" /\ LastCall[2] = NULL) =>
          /\ pc \in {"ia_link", "abort"}
          /\ head = pre.head
          /\ next = pre.next
          /\ writes = <<>>

\* the assertion has failed on a list of two or more nodes
C18_Witness ==
    /\ pc = "abort"
    /\ Len(PreChain) >= 2
    /\ LastCall[3] \notin ChainSet

\* what FindInsertionSpot has to return on the list h, nx: the last node of
\* the longest run of nodes from the head, all before boundary, whose values
\* are all strictly less than value; nullptr when that run is empty
ExpectedSpot(h, nx, value, boundary) ==
    LET ch == Walk(h, nx, n)
        stop == IF boundary = NULL THEN Len(ch) + 1 ELSE PosIn(ch, boundary)
        run == {j \in 0..(stop - 1) : \A i \in 1..j : data[ch[i]] < value}
        m == CHOOSE j \in run : \A j2 \in run : j2 <= j
    IN  IF m = 0 THEN NULL ELSE ch[m]

\* C19: FindInsertionSpot returns the last node of the maximal run of nodes
\* from head, before boundary, with values strictly below value; nullptr just
\* when head is boundary (or the list is empty) or head's value is not below
\* value.  Checked on direct calls and on the driver's call.
C19_FindInsertionSpotResult ==
    /\ (Returned /\ LastCall[1] = "FindInsertionSpot") =>
          /\ spot = ExpectedSpot(pre.head, pre.next, LastCall[2], LastCall[3])
          /\ spot = NULL <=>
                (IF pre.head = LastCall[3] THEN TRUE
                 ELSE data[pre.head] >= LastCall[2])
    /\ pc \in {"trace_before", "place"} =>
          /\ spot = ExpectedSpot(pre.head, pre.next, data[curr], curr)
          /\ spot = NULL <=> data[pre.head] >= data[curr]

\* a direct call stopped by the boundary in the middle of a list whose
\* values are all below the value
C19_Witness ==
    /\ Returned
    /\ LastCall[1] = "FindInsertionSpot"
    /\ LastCall[3] # NULL
    /\ LastCall[3] # pre.head
    /\ pre.next[LastCall[3]] # NULL
    /\ \A x \in PreChainSet : data[x] < LastCall[2]
    /\ spot # NULL
    /\ pre.next[spot] = LastCall[3]

\* the nodes strictly before boundary on the chain as it was at the call
PreBefore(boundary) ==
    IF boundary = NULL THEN PreChainSet
    ELSE {PreChain[i] : i \in 1..(PosIn(PreChain, boundary) - 1)}

\* C20: with boundary nullptr or on the chain, FindInsertionSpot reads the
\* data only of nodes strictly before boundary, never reads through nullptr,
\* returns nullptr or a node strictly before boundary and leaves head and
\* every next field alone; in the driver it reads neither curr nor any node
\* after curr.
C20_ScanInsidePrefix ==
    /\ pc # "crash"
    /\ (Returned /\ LastCall[1] = "FindInsertionSpot") =>
          LET r == FindInsertionSpot(pre.head, pre.next, data, LastCall[2], LastCall[3])
          IN  /\ r.status = "ok"
              /\ r.reads \subseteq PreBefore(LastCall[3])
              /\ spot \in {NULL} \cup PreBefore(LastCall[3])
              /\ head = pre.head
              /\ next = pre.next
    /\ pc \in {"trace_before", "place"} =>
          LET r == FindInsertionSpot(pre.head, pre.next, data, data[curr], curr)
          IN  /\ r.status = "ok"
              /\ r.reads \subseteq PreBefore(curr)
              /\ r.reads \cap {x \in Nodes : x = curr \/ x \in ChainSet \ PreBefore(curr)} = {}
              /\ spot \in {NULL} \cup PreBefore(curr)
              /\ head = pre.head
              /\ next = pre.next

\* a direct call with boundary nullptr scanned a whole list of three or more
\* nodes to its end
C20_Witness ==
    /\ Returned
    /\ LastCall[1] = "FindInsertionSpot"
    /\ LastCall[3] = NULL
    /\ Len(PreChain) >= 3
    /\ spot # NULL
    /\ pre.next[spot] = NULL

\* ------------------------------------------------ the sort without the hook
\* ListInsertionSort as it is compiled without TRACE, run to completion on a
\* list record [head, next, writes]: the primitives and the loop body in one go
RunRemoveAfter(st, a) ==
    LET v == IF a = NULL THEN st.head ELSE st.next[a]
    IN  IF v = NULL THEN st
        ELSE LET after   == st.next[v]
                 skipped == IF a = NULL THEN st.next
                            ELSE [st.next EXCEPT ![a] = after]
             IN  [head   |-> IF a = NULL THEN after ELSE st.head,
                  next   |-> [skipped EXCEPT ![v] = NULL],
                  writes |-> st.writes \o
                             << IF a = NULL THEN <<"head", NULL, after>>
                                ELSE <<"next", a, after>>,
                                <<"next", v, NULL>> >>]

RunPrepend(st, x) ==
    [head   |-> x,
     next   |-> [st.next EXCEPT ![x] = st.head],
     writes |-> st.writes \o << <<"next", x, st.head>>, <<"head", NULL, x>> >>]

RunInsertAfter(st, a, x) ==
    [head   |-> st.head,
     next   |-> [[st.next EXCEPT ![x] = st.next[a]] EXCEPT ![a] = x],
     writes |-> st.writes \o << <<"next", x, st.next[a]>>, <<"next", a, x>> >>]

RECURSIVE RunLoop(_, _, _, _, _)
RunLoop(st, p, c, d, fuel) ==
    IF c = NULL \/ fuel = 0 THEN st
    ELSE LET nxt == st.next[c]
             sp  == FindInsertionSpot(st.head, st.next, d, d[c], c).res
         IN  IF sp = p THEN RunLoop(st, c, nxt, d, fuel - 1)
             ELSE LET r == RunRemoveAfter(st, p)
                      i == IF sp = NULL THEN RunPrepend(r, c)
                           ELSE RunInsertAfter(r, sp, c)
                  IN  RunLoop(i, p, nxt, d, fuel - 1)

RunSort(d) ==
    LET st0 == [head |-> PushBackHead(d), next |-> PushBackNext(d), writes |-> <<>>]
    IN  IF ShortList(st0.head, st0.next) THEN st0
        ELSE RunLoop(st0, st0.head, st0.next[st0.head], d, Len(d))

\* the driver is about to emit a snapshot
HookSteps == {"trace_before", "trace_unlink", "trace_head", "trace_spot"}

\* C21: the hook is transparent. A step that emits a snapshot changes no head,
\* no successor reference, no node value and none of the cursors prev, curr,
\* next, spot, and writes nothing; and a run that returns, with the hook or
\* without it, has performed exactly the writes of the sort compiled without
\* the hook on the same input, in the same order, and leaves the same list.
C21_HookTransparency ==
    [][ /\ pc \in HookSteps =>
              UNCHANGED <<data, next, head, prev, curr, savedNext, spot, writes>>
        /\ Done' => /\ head'   = RunSort(data).head
                    /\ next'   = RunSort(data).next
                    /\ writes' = RunSort(data).writes ]_vars

\* a traced run has returned after moving nodes and emitting snapshots
C21_Witness ==
    /\ Done
    /\ trace
    /\ Len(writes) >= 8
    /\ Len(snaps) >= 6

\* the driver is at the loop test: an iteration boundary
AtLoopTest == pc = "loop"

\* C22: at the loop test, with k = 1 + (iterations completed) nodes processed,
\* the first k nodes of the chain are the first k input nodes in non-decreasing
\* value order, the k-th of them is prev, prev's successor is curr, and the
\* rest of the chain is the input nodes k+1..n in input order.
C22_LoopInvariant ==
    AtLoopTest =>
        LET k == Len(iterlog) + 1
        IN  /\ k <= n
            /\ Len(Chain) = n
            /\ {Chain[i] : i \in 1..k} = 1..k
            /\ NonDecreasing([i \in 1..k |-> data[Chain[i]]])
            /\ Chain[k] = prev
            /\ next[prev] = curr
            /\ \A i \in (k + 1)..n : Chain[i] = i
            /\ curr = IF k < n THEN k + 1 ELSE NULL

\* an iteration boundary in mid-run, after a move and a non-move iteration
C22_Witness ==
    /\ AtLoopTest
    /\ curr # NULL
    /\ \E i, j \in 1..Len(iterlog) : iterlog[i].moved /\ ~iterlog[j].moved
    /\ Chain # InputOrder

\* ListRemoveAfter has just returned to the driver
RemoveAfterReturned == Returned /\ LastCall[1] = "ListRemoveAfter"

\* C23: when an iteration starts, prev is on the chain and curr is the node
\* right after it; and when the driver's ListRemoveAfter(list, prev) returns,
\* the node it returns is curr, never "no node", curr is off the chain and
\* isolated, and the driver's cursors are what they were before the call.
C23_RemovedNodeIsCurr ==
    /\ (AtLoopTest /\ curr # NULL) =>
           /\ prev \in ChainSet
           /\ next[prev] = curr
    /\ RemoveAfterReturned =>
           /\ argPrev = prev
           /\ nodeToRemove # NULL
           /\ nodeToRemove = curr
           /\ pre.next[prev] = curr
           /\ curr \notin ChainSet
           /\ next[curr] = NULL
           /\ LET e == iterlog[Len(iterlog)]
              IN  prev = e.prev /\ curr = e.curr /\ savedNext = e.next /\ spot = e.spot

\* ListRemoveAfter has returned in a move of a node from the middle of a run
C23_Witness ==
    /\ RemoveAfterReturned
    /\ Len(iterlog) >= 2
    /\ savedNext # NULL
    /\ nodeToRemove = curr

\* the driver is inside an iteration, before it has chosen a case
BeforePlace == pc \in {"find", "trace_before", "place"}

\* C24: the k-th iteration takes input node k+1 as curr and saves that node's
\* input successor as next; between the save and the choice of a case nothing
\* has been written and the saved next is still curr's successor; at the next
\* loop test curr is the saved next; and a run that returns has made one
\* iteration per input node after the first.
C24_TraversalOrder ==
    /\ \A k \in 1..Len(iterlog) :
           /\ iterlog[k].curr = k + 1
           /\ iterlog[k].next = PushBackNext(data)[k + 1]
           /\ k > 1 => iterlog[k].curr = iterlog[k - 1].next
    /\ BeforePlace =>
           LET e == iterlog[Len(iterlog)]
           IN  /\ curr = e.curr
               /\ savedNext = e.next
               /\ savedNext = next[curr]
               /\ Len(writes) = e.nwrites
    /\ (AtLoopTest /\ iterlog # <<>>) => curr = iterlog[Len(iterlog)].next
    /\ Done => [k \in 1..Len(iterlog) |-> iterlog[k].curr] =
                   [k \in 1..(IF n >= 2 THEN n - 1 ELSE 0) |-> k + 1]

\* a run on four or more nodes has returned after moving a node to the head
C24_Witness ==
    /\ Done
    /\ n >= 4
    /\ \E k \in 1..Len(iterlog) : iterlog[k].moved /\ iterlog[k].spot = NULL
    /\ \E k \in 1..Len(iterlog) : iterlog[k].moved /\ iterlog[k].spot # NULL

\* the iteration that has just ended, seen from the loop test
LastIter == iterlog[Len(iterlog)]

\* C25: at the loop test after an iteration that found spot = prev, prev is
\* that iteration's curr and the iteration wrote nothing; after an iteration
\* that found spot # prev, prev is the node it was, the iteration wrote the
\* two links of the removal and the two of the reinsertion, prev is the last
\* node of the prefix of processed nodes, that prefix is in non-decreasing
\* value order, and prev's successor is the saved next.
C25_PrevMovesOnlyWithoutRelink ==
    (AtLoopTest /\ iterlog # <<>>) =>
        IF LastIter.spot = LastIter.prev
        THEN /\ ~LastIter.moved
             /\ prev = LastIter.curr
             /\ Len(writes) = LastIter.nwrites
        ELSE /\ LastIter.moved
             /\ prev = LastIter.prev
             /\ Len(writes) = LastIter.nwrites + 4
             /\ Len(Chain) >= Len(iterlog) + 1
             /\ Chain[Len(iterlog) + 1] = prev
             /\ NonDecreasing([i \in 1..(Len(iterlog) + 1) |-> data[Chain[i]]])
             /\ next[prev] = LastIter.next
             /\ next[prev] = savedNext

\* the loop test after a move that left nodes still to process
C25_Witness ==
    /\ AtLoopTest
    /\ iterlog # <<>>
    /\ LastIter.moved
    /\ LastIter.spot # NULL
    /\ curr # NULL
    /\ \E k \in 1..Len(iterlog) : ~iterlog[k].moved

\* the titles of the snapshots that the iterations of a log ask for, in order
RECURSIVE IterTitles(_)
IterTitles(log) ==
    IF log = <<>> THEN <<>>
    ELSE LET e == log[Len(log)]
         IN  IterTitles(SubSeq(log, 1, Len(log) - 1))
             \o <<"BEFORE place">>
             \o (IF e.moved
                 THEN <<"AFTER unlink",
                        IF e.spot = NULL THEN "AFTER insert (at head)"
                        ELSE "AFTER insert at spot">>
                 ELSE <<>>)

SnapTitles == [i \in 1..Len(snaps) |-> snaps[i].title]
EarlierIters == SubSeq(iterlog, 1, Len(iterlog) - 1)
Moves == Cardinality({k \in 1..Len(iterlog) : iterlog[k].moved})

\* where the driver is inside an iteration, by the snapshots already due
SpotNotYetShown == pc \in {"find", "trace_before"}
UnlinkNotYetShown == pc \in {"place", "ra_read", "ra_skip", "ra_isolate", "trace_unlink"}
InsertNotYetShown ==
    pc \in {"stepB", "lp_link", "lp_head", "ia_link", "ia_prev", "trace_head", "trace_spot"}
IterationOver == pc \in {"advance", "loop", "done"}

\* C26: without the hook nothing is emitted. With it, the snapshots emitted so
\* far are, iteration by iteration, one "BEFORE place", then for a moving
\* iteration one "AFTER unlink" and one "AFTER insert", and nothing else; the
\* current iteration has emitted "BEFORE place" once spot is computed and
\* before its first write, "AFTER unlink" once the removal has returned, and
\* "AFTER insert" once the reinsertion has returned. A "BEFORE place" box shows
\* all n nodes with curr right after prev, an "AFTER unlink" box shows n - 1
\* nodes and curr isolated, an "AFTER insert" box shows n nodes with curr at the
\* head or right after spot. A returned run on n >= 2 nodes with m moves has
\* emitted (n - 1) + 2m snapshots.
C26_SnapshotOrdering ==
    /\ ~trace => snaps = <<>>
    /\ (trace /\ SpotNotYetShown) => SnapTitles = IterTitles(EarlierIters)
    /\ (trace /\ UnlinkNotYetShown) =>
           SnapTitles = IterTitles(EarlierIters) \o <<"BEFORE place">>
    /\ (trace /\ pc = "place") => Len(writes) = LastIter.nwrites
    /\ (trace /\ InsertNotYetShown) =>
           SnapTitles = IterTitles(EarlierIters) \o <<"BEFORE place", "AFTER unlink">>
    /\ (trace /\ IterationOver) => SnapTitles = IterTitles(iterlog)
    /\ (trace /\ Done /\ n >= 2) => Len(snaps) = (n - 1) + 2 * Moves
    /\ \A i \in 1..Len(snaps) :
           LET s == snaps[i]
               m == Len(s.order)
           IN  /\ s.title = "BEFORE place" =>
                      /\ m = n
                      /\ \E j \in 1..(m - 1) : s.order[j] = s.P /\ s.order[j + 1] = s.C
               /\ s.title = "AFTER unlink" =>
                      /\ m = n - 1
                      /\ \A j \in 1..m : s.order[j] # s.C
                      /\ s.isolated = s.C
               /\ s.title = "AFTER insert (at head)" =>
                      /\ m = n
                      /\ s.S = NULL
                      /\ s.order[1] = s.C
               /\ s.title = "AFTER insert at spot" =>
                      /\ m = n
                      /\ \E j \in 1..(m - 1) : s.order[j] = s.S /\ s.order[j + 1] = s.C

\* a traced run has returned after iterations of all three kinds
C26_Witness ==
    /\ Done
    /\ trace
    /\ \E k \in 1..Len(iterlog) : ~iterlog[k].moved
    /\ \E k \in 1..Len(iterlog) : iterlog[k].moved /\ iterlog[k].spot = NULL
    /\ \E k \in 1..Len(iterlog) : iterlog[k].moved /\ iterlog[k].spot # NULL
    /\ Len(snaps) = (n - 1) + 2 * Moves

\* iteration k of the log has chosen its case
Decided(k) == k < Len(iterlog) \/ IterationOver

LeavesBefore(x, y) ==
    \/ data[x] < data[y]
    \/ data[x] = data[y] /\ x > y

====
